---- MODULE Spec2Model ----
(***************************************************************************)
(* A model of SECFilingAgent (sec_forms_downloader.py): the ticker         *)
(* registry, the two feed readers and the get_filings pipeline.            *)
(*                                                                         *)
(* Python strings are sequences of one-character tokens, so that upper(),  *)
(* replace('-', ''), split('T'), strptime, zfill, int() and the string     *)
(* comparison of sorted() are computed and not assumed.  Form names,       *)
(* chunk names and the archive base are opaque one-token strings: the      *)
(* code only compares or concatenates them whole.                          *)
(***************************************************************************)
EXTENDS Integers, Sequences, FiniteSets, TLC

VARIABLES
    registry,        \* the company_tickers.json document: a sequence of [ticker, cik_str]
    cik_map,         \* self.cik_map
    loads,           \* number of times the registry has been downloaded
    upstream,        \* the EDGAR documents of the entity: recent section, files, chunks
    today,           \* datetime.utcnow().date() as <<y, m, d>>
    args,            \* the arguments of the pending get_filings call
    pc,              \* position of the call
    cik,             \* local cik of get_filings
    cutoff,          \* local cutoff (proleptic Gregorian ordinal)
    recent_entries,  \* local recent_entries
    summary,         \* local summary of _load_historical_entries
    chunk_i,         \* index of the next chunk of summary to read
    hist_entries,    \* local entries of _load_historical_entries
    kept,            \* indices of recent_entries + hist_entries appended to combined
    unique,          \* values of the dict unique, in dict order
    result,          \* the returned list, or None
    error,           \* the exception the call raised, or None
    requests,        \* number of requests.get calls made by the pending call
    fetch_failed,    \* some response of the pending call had a failure status
    ret              \* outcome of the last direct get_cik call

vars == <<registry, cik_map, loads, upstream, today, args, pc, cik, cutoff,
          recent_entries, summary, chunk_i, hist_entries, kept, unique, result,
          error, requests, fetch_failed, ret>>

----------------------------------------------------------------------------
(* Bounds of the model *)

MaxRows == 3
MaxChunks == 2
MaxYearsBack == 2

----------------------------------------------------------------------------
(* Python values *)

\* Python None: a one-token value no string (a sequence of characters) equals.
None == <<"<None>">>

\* A key that is not in a dict (only the nested-list chunks can have one).
Missing == <<"<missing>">>

SeqsUpTo(S, n) == UNION {[1..k -> S] : k \in 0..n}

Digits == <<"0", "1", "2", "3", "4", "5", "6", "7", "8", "9">>

DigitSet == {Digits[i] : i \in 1..10}

DigitVal(c) == (CHOOSE i \in 1..10 : Digits[i] = c) - 1

IsDigits(s) == \A i \in 1..Len(s) : s[i] \in DigitSet

\* Code point of a character (the characters a date string is made of).
Ord(c) ==
    IF c \in DigitSet THEN 48 + DigitVal(c)
    ELSE CASE c = " " -> 32
           [] c = "-" -> 45
           [] c = "T" -> 84
           [] OTHER -> 120

\* s < t for Python strings: the first differing character decides, a proper
\* prefix is smaller.
RECURSIVE StrLess(_, _)
StrLess(s, t) ==
    IF t = <<>> THEN FALSE
    ELSE IF s = <<>> THEN TRUE
    ELSE IF Head(s) = Head(t) THEN StrLess(Tail(s), Tail(t))
    ELSE Ord(Head(s)) < Ord(Head(t))

\* int(s) for a string of decimal digits.
RECURSIVE StrToInt(_)
StrToInt(s) ==
    IF s = <<>> THEN 0
    ELSE 10 * StrToInt(SubSeq(s, 1, Len(s) - 1)) + DigitVal(s[Len(s)])

\* str(n) for n >= 0.
RECURSIVE IntToStr(_)
IntToStr(n) ==
    IF n < 10 THEN <<Digits[n + 1]>>
    ELSE IntToStr(n \div 10) \o <<Digits[(n % 10) + 1]>>

\* s.zfill(w)
RECURSIVE zfill(_, _)
zfill(s, w) == IF Len(s) >= w THEN s ELSE zfill(<<"0">> \o s, w)

\* ticker.upper() over the letters tickers are written with.
UpperChar(c) ==
    CASE c = "m" -> "M"
      [] c = "s" -> "S"
      [] c = "n" -> "N"
      [] c = "z" -> "Z"
      [] OTHER -> c

upper(s) == [i \in 1..Len(s) |-> UpperChar(s[i])]

\* acc.replace('-', '')
RECURSIVE RemoveDashes(_)
RemoveDashes(s) ==
    IF s = <<>> THEN <<>>
    ELSE IF Head(s) = "-" THEN RemoveDashes(Tail(s))
    ELSE <<Head(s)>> \o RemoveDashes(Tail(s))

\* date_str.split('T')[0]
RECURSIVE BeforeT(_)
BeforeT(s) ==
    IF s = <<>> THEN <<>>
    ELSE IF Head(s) = "T" THEN <<>>
    ELSE <<Head(s)>> \o BeforeT(Tail(s))

\* What an f-string writes for a value: the text None for None.
Format(v) == IF v = None THEN <<"N", "o", "n", "e">> ELSE v

----------------------------------------------------------------------------
(* datetime: strptime(s, '%Y-%m-%d').date(), date ordinals *)

IsLeap(y) == y % 4 = 0 /\ (y % 100 # 0 \/ y % 400 = 0)

DaysInMonth(y, m) ==
    IF m = 2 THEN (IF IsLeap(y) THEN 29 ELSE 28)
    ELSE IF m \in {4, 6, 9, 11} THEN 30 ELSE 31

RECURSIVE DaysBeforeMonth(_, _)
DaysBeforeMonth(y, m) ==
    IF m = 1 THEN 0 ELSE DaysBeforeMonth(y, m - 1) + DaysInMonth(y, m - 1)

DaysBeforeYear(y) ==
    (y - 1) * 365 + ((y - 1) \div 4) - ((y - 1) \div 100) + ((y - 1) \div 400)

\* date(y, m, d).toordinal()
ToOrdinal(y, m, d) == DaysBeforeYear(y) + DaysBeforeMonth(y, m) + d

\* The %m directive: 1[0-2] | 0[1-9] | [1-9]
MonthField(f) ==
    /\ Len(f) \in {1, 2}
    /\ IsDigits(f)
    /\ StrToInt(f) \in 1..12

\* The %d directive: 3[01] | [12]\d | 0[1-9] | [1-9] | " "[1-9]
DayField(f) ==
    /\ Len(f) \in {1, 2}
    /\ \/ IsDigits(f) /\ StrToInt(f) \in 1..31
       \/ Len(f) = 2 /\ f[1] = " " /\ f[2] \in DigitSet /\ f[2] # "0"

DayValue(f) == IF f[1] = " " THEN DigitVal(f[2]) ELSE StrToInt(f)

\* The fields <<year, month, day>> of s under '%Y-%m-%d', or <<>> when the
\* pattern does not match the whole of s.
DateFields(s) ==
    LET lm == IF Len(s) >= 7 /\ s[7] = "-" THEN 1 ELSE 2
        y  == SubSeq(s, 1, 4)
        m  == SubSeq(s, 6, 5 + lm)
        d  == SubSeq(s, 7 + lm, Len(s))
    IN  IF /\ Len(s) >= 6 + lm + 1
           /\ IsDigits(y)
           /\ s[5] = "-"
           /\ s[6 + lm] = "-"
           /\ MonthField(m)
           /\ DayField(d)
        THEN <<StrToInt(y), StrToInt(m), DayValue(d)>>
        ELSE <<>>

\* strptime(s, '%Y-%m-%d') raises ValueError: no match, year 0, or a day out
\* of range for the month.
strptime_raises(s) ==
    LET f == DateFields(s)
    IN  \/ f = <<>>
        \/ f[1] < 1
        \/ f[3] > DaysInMonth(f[1], f[2])

\* strptime(s, '%Y-%m-%d').date() as an ordinal, where it does not raise.
strptime_date(s) ==
    LET f == DateFields(s) IN ToOrdinal(f[1], f[2], f[3])

----------------------------------------------------------------------------
(* Class constants *)

VALID_FORM_TYPES ==
    {<<"10-K">>, <<"10-Q">>, <<"8-K">>, <<"20-F">>, <<"6-K">>, <<"S-1">>, <<"S-3">>,
     <<"13F">>, <<"424B2">>, <<"DEF 14A">>, <<"SC 13G">>, <<"SC 13D">>, <<"N-PORT">>,
     <<"N-CSR">>}

ARCHIVE_BASE == "https://www.sec.gov/Archives/edgar/data/"

CikWidth == 10

DaysPerYear == 365

----------------------------------------------------------------------------
(* Ticker registry *)

\* _load_cik_map: a dict comprehension over the registry entries, so the last
\* entry with a given upper-cased ticker is the one that stays.
load_cik_map(data) ==
    LET keys == {upper(data[i].ticker) : i \in 1..Len(data)}
        last(k) == CHOOSE i \in 1..Len(data) :
                      /\ upper(data[i].ticker) = k
                      /\ \A j \in (i + 1)..Len(data) : upper(data[j].ticker) # k
    IN  [k \in keys |-> zfill(IntToStr(data[last(k)].cik_str), CikWidth)]

\* A lookup that forgets to fold the case of the ticker.
LookupKeyAsTyped(ticker) == ticker

\* tk = ticker.upper()
LookupKey(ticker) == upper(ticker)

\* get_cik: the value returned, or the ValueError raised.
get_cik(map, ticker) ==
    LET tk == LookupKey(ticker)
    IN  IF tk \notin DOMAIN map
        THEN [status |-> "ValueError", value |-> None]
        ELSE [status |-> "ok", value |-> map[tk]]

----------------------------------------------------------------------------
(* Feed readers *)

\* A reader that never checks the status of the response.
raise_for_status_skipped(ok) == FALSE

\* resp.raise_for_status() raises when the response has a failure status.
raise_for_status(ok) == ~ok

\* The body of a response with a failure status (never decoded by the code).
ErrorBody ==
    [kind |-> "other", accessionNumber |-> <<>>, form |-> <<>>, filingDate |-> <<>>,
     reportDate |-> <<>>, primaryDocument |-> <<>>, filings |-> <<>>]

\* The bounds test with a 1-based index compared as if it were 0-based.
ItemOrNoneOffByOne(arr, i) == IF i < Len(arr) THEN arr[i] ELSE None

\* arr[i] if i < len(arr) else None
ItemOrNone(arr, i) == IF i <= Len(arr) THEN arr[i] ELSE None

\* One record of a parallel-array chunk (lines 114-121).
HistoricalEntry(data, i, chunk_name) ==
    [form            |-> ItemOrNone(data.form, i),
     accessionNumber |-> data.accessionNumber[i],
     filingDate      |-> ItemOrNone(data.filingDate, i),
     reportDate      |-> ItemOrNone(data.reportDate, i),
     document        |-> ItemOrNone(data.primaryDocument, i),
     source          |-> chunk_name]

\* The records one chunk document adds to entries: the parallel arrays, or the
\* nested 'filings' list with each entry tagged, or nothing.
DecodeChunk(data, chunk_name) ==
    IF data.kind = "arrays"
    THEN [i \in 1..Len(data.accessionNumber) |-> HistoricalEntry(data, i, chunk_name)]
    ELSE IF data.kind = "nested"
    THEN [i \in 1..Len(data.filings) |-> [data.filings[i] EXCEPT !.source = chunk_name]]
    ELSE <<>>

\* The loop of _load_recent_entries over enumerate(forms): accessions[i],
\* report_dates[i] and primary_docs[i] raise IndexError when the array is
\* shorter than forms.
DecodeRecent(recent) ==
    LET n == Len(recent.form)
    IN  IF \/ Len(recent.accessionNumber) < n
           \/ Len(recent.reportDate) < n
           \/ Len(recent.primaryDocument) < n
        THEN [error |-> "IndexError", entries |-> <<>>]
        ELSE [error |-> "none",
              entries |-> [i \in 1..n |->
                  [form            |-> recent.form[i],
                   accessionNumber |-> recent.accessionNumber[i],
                   filingDate      |-> recent.reportDate[i],
                   reportDate      |-> recent.reportDate[i],
                   document        |-> recent.primaryDocument[i],
                   source          |-> <<"recent">>]]]

----------------------------------------------------------------------------
(* get_filings: filter, link, deduplicate, sort *)

\* cutoff = today - timedelta(days=365 * years_back)
Cutoff(t, years_back) == ToOrdinal(t[1], t[2], t[3]) - DaysPerYear * years_back

\* A filter that also drops the record dated on the cutoff.
BeforeCutoffInclusive(filing_date, co) == filing_date <= co

\* if filing_date < cutoff: continue
BeforeCutoff(filing_date, co) == filing_date < co

\* link = f"{ARCHIVE_BASE}{int(cik)}/{acc_nodash}/{entry['document']}"
BuildLink(ck, acc, document) ==
    <<ARCHIVE_BASE>> \o IntToStr(StrToInt(ck)) \o <<"/">> \o RemoveDashes(acc)
        \o <<"/">> \o Format(document)

\* The body of the filter loop for one entry (lines 180-199): the entry is
\* skipped, or a record is appended to combined, or an exception is raised.
Admit(entry, form_type, co, ck) ==
    LET date_str == IF entry.filingDate = Missing THEN None ELSE entry.filingDate
        skip     == [kind |-> "skip", err |-> "none", rec |-> <<>>]
        raise(e) == [kind |-> "raise", err |-> e, rec |-> <<>>]
    IN  IF entry.form # form_type THEN skip
        ELSE IF date_str = None \/ date_str = <<>> THEN skip
        ELSE IF strptime_raises(BeforeT(date_str)) THEN raise("ValueError")
        ELSE IF BeforeCutoff(strptime_date(BeforeT(date_str)), co) THEN skip
        ELSE IF entry.accessionNumber = Missing THEN raise("KeyError")
        ELSE IF entry.accessionNumber = None THEN raise("AttributeError")
        ELSE IF entry.document = Missing THEN raise("KeyError")
        ELSE [kind |-> "keep", err |-> "none",
              rec  |-> [accessionNumber |-> entry.accessionNumber,
                        filingDate      |-> date_str,
                        document        |-> entry.document,
                        link            |-> BuildLink(ck, entry.accessionNumber,
                                                      entry.document),
                        source          |-> entry.source]]

\* The filter loop over recent_entries + hist_entries: the exception that ended
\* it (or "none"), the list combined, and the indices of the entries kept.
Combine(entries, form_type, co, ck) ==
    LET RECURSIVE Upto(_)
        Upto(i) ==
            IF i = 0 THEN [error |-> "none", combined |-> <<>>, kept |-> {}]
            ELSE LET p == Upto(i - 1)
                     a == Admit(entries[i], form_type, co, ck)
                 IN  IF p.error # "none" \/ a.kind = "skip" THEN p
                     ELSE IF a.kind = "raise" THEN [p EXCEPT !.error = a.err]
                     ELSE [p EXCEPT !.combined = Append(@, a.rec),
                                    !.kept = @ \cup {i}]
    IN  Upto(Len(entries))

\* A collection that keeps every record instead of one per key.
DictPutAppend(d, e) == Append(d, e)

\* unique[e['accessionNumber']] = e for one e: a new key goes to the end of the
\* dict, an existing key keeps its place and takes the new value.
DictPut(d, e) ==
    IF \E j \in 1..Len(d) : d[j].accessionNumber = e.accessionNumber
    THEN [j \in 1..Len(d) |->
             IF d[j].accessionNumber = e.accessionNumber THEN e ELSE d[j]]
    ELSE Append(d, e)

\* list({e['accessionNumber']: e for e in combined}.values())
RECURSIVE Dedup(_)
Dedup(combined) ==
    IF combined = <<>> THEN <<>>
    ELSE DictPut(Dedup(SubSeq(combined, 1, Len(combined) - 1)),
                 combined[Len(combined)])

\* An insertion that puts x before the elements with an equal key.
InsertPosUnstable(s, x) ==
    LET notLarger == {j \in 1..Len(s) : ~StrLess(x.filingDate, s[j].filingDate)}
    IN  IF notLarger = {} THEN Len(s) + 1
        ELSE CHOOSE j \in notLarger : \A k \in notLarger : j <= k

\* Where a stable descending sort puts x among the already sorted s: after
\* every element whose key is not smaller than x's.
InsertPos(s, x) ==
    LET smaller == {j \in 1..Len(s) : StrLess(s[j].filingDate, x.filingDate)}
    IN  IF smaller = {} THEN Len(s) + 1
        ELSE CHOOSE j \in smaller : \A k \in smaller : j <= k

\* sorted(values, key=lambda x: x['filingDate'], reverse=True)
RECURSIVE SortDesc(_)
SortDesc(values) ==
    IF values = <<>> THEN <<>>
    ELSE LET s == SortDesc(SubSeq(values, 1, Len(values) - 1))
             x == values[Len(values)]
             p == InsertPos(s, x)
         IN  SubSeq(s, 1, p - 1) \o <<x>> \o SubSeq(s, p, Len(s))

----------------------------------------------------------------------------
(* The inputs: registries, upstream documents, call arguments *)

AccA == <<"0", "0", "-", "2", "4", "-", "1">>
AccB == <<"0", "0", "-", "2", "4", "-", "2">>
AccC == <<"0", "0", "-", "2", "3", "-", "7">>

Doc1 == <<"a.htm">>

D20230615  == <<"2", "0", "2", "3", "-", "0", "6", "-", "1", "5">>
D20230102  == <<"2", "0", "2", "3", "-", "0", "1", "-", "0", "2">>
D20230101  == <<"2", "0", "2", "3", "-", "0", "1", "-", "0", "1">>
D20221231  == <<"2", "0", "2", "2", "-", "1", "2", "-", "3", "1">>
D20220101  == <<"2", "0", "2", "2", "-", "0", "1", "-", "0", "1">>
D20211231  == <<"2", "0", "2", "1", "-", "1", "2", "-", "3", "1">>
D20210101  == <<"2", "0", "2", "1", "-", "0", "1", "-", "0", "1">>
D20201231  == <<"2", "0", "2", "0", "-", "1", "2", "-", "3", "1">>
D20230302  == <<"2", "0", "2", "3", "-", "0", "3", "-", "0", "2">>
D20230301  == <<"2", "0", "2", "3", "-", "0", "3", "-", "0", "1">>
DUnpadded  == <<"2", "0", "2", "3", "-", "7", "-", "4">>
DWithTime  == <<"2", "0", "2", "3", "-", "0", "6", "-", "1", "5", "T", "0", "9">>
DMonth13   == <<"2", "0", "2", "3", "-", "1", "3", "-", "0", "1">>
DFeb29     == <<"2", "0", "2", "3", "-", "0", "2", "-", "2", "9">>
DCompact   == <<"2", "0", "2", "3", "0", "6", "1", "5">>
DWord      == <<"x">>

ValidDates ==
    {D20230615, D20230102, D20230101, D20221231, D20220101, D20211231, D20210101,
     D20201231, D20230302, D20230301, DUnpadded, DWithTime}

MalformedDates == {DMonth13, DFeb29, DCompact, DWord}

FilterDates == ValidDates \cup MalformedDates \cup {None, <<>>}

Todays == {<<2024, 1, 1>>, <<2024, 3, 1>>}

Tickers == {<<"m", "s">>, <<"M", "S">>, <<"M", "s">>, <<"n">>, <<"z">>}

FormArgs == {<<"10-K">>, <<"8-K">>, <<"10-k">>, <<"XX">>}

RegistryEntries ==
    {[ticker |-> <<"m", "s">>, cik_str |-> 789019],
     [ticker |-> <<"M", "S">>, cik_str |-> 5],
     [ticker |-> <<"n">>, cik_str |-> 1065280123]}

Registries == SeqsUpTo(RegistryEntries, 2)

Reg0 == <<[ticker |-> <<"m", "s">>, cik_str |-> 789019]>>

Args0 == [ticker |-> <<"M", "s">>, form_type |-> <<"10-K">>, years_back |-> 2]

Today0 == <<2024, 1, 1>>

Row(f, a, d, doc) == [form |-> f, accessionNumber |-> a, date |-> d, document |-> doc]

Column(rows, field) == [i \in 1..Len(rows) |-> rows[i][field]]

\* The "recent" section holding the given rows as parallel arrays.
RecentOf(rows) ==
    [form            |-> Column(rows, "form"),
     accessionNumber |-> Column(rows, "accessionNumber"),
     reportDate      |-> Column(rows, "date"),
     primaryDocument |-> Column(rows, "document")]

\* A parallel-array chunk document holding the given rows.
ArraysOf(rows) ==
    [kind            |-> "arrays",
     accessionNumber |-> Column(rows, "accessionNumber"),
     form            |-> Column(rows, "form"),
     filingDate      |-> Column(rows, "date"),
     reportDate      |-> Column(rows, "date"),
     primaryDocument |-> Column(rows, "document"),
     filings         |-> <<>>]

ChunkRef(name, data) == [name |-> name, data |-> data]

ChunkName(i) == <<"c", Digits[i + 1]>>

World(recentRows, histRows) ==
    [recent |-> RecentOf(recentRows),
     files  |-> <<ChunkRef(ChunkName(1), ArraysOf(histRows))>>]

Scenario(reg, up, t, a) == [registry |-> reg, upstream |-> up, today |-> t, args |-> a]

\* Pairs of feeds with at most n rows in all.
FeedPairs(Rows, n) ==
    UNION {{<<r, h>> : r \in [1..k -> Rows], h \in SeqsUpTo(Rows, n - k)} : k \in 0..n}

\* Overlap, repetition and order: all rows qualify, accession numbers and dates vary.
RowsAgg == {Row(<<"10-K">>, a, d, Doc1) : a \in {AccA, AccB, AccC}, d \in {D20230615, D20230102}}

ScenariosAgg ==
    {Scenario(Reg0, World(p[1], p[2]), Today0, Args0) : p \in FeedPairs(RowsAgg, MaxRows)}

\* The filter: one record in either feed, every form and date, every cutoff.
RowsFilter ==
    {Row(f, AccA, d, Doc1) : f \in {<<"10-K">>, <<"8-K">>, <<"10-k">>, None}, d \in FilterDates}

ScenariosFilter ==
    {Scenario(Reg0, World(p[1], p[2]), t,
              [ticker |-> <<"m", "s">>, form_type |-> f, years_back |-> y]) :
        p \in FeedPairs(RowsFilter, 1), t \in Todays,
        f \in {<<"10-K">>, <<"8-K">>}, y \in 0..MaxYearsBack}

\* A malformed date at every position of either feed, among qualifying records.
RowsPos ==
    {Row(<<"10-K">>, AccA, D20230615, Doc1),
     Row(<<"10-K">>, AccB, DMonth13, Doc1),
     Row(<<"8-K">>, AccC, DWord, Doc1)}

ScenariosPos ==
    {Scenario(Reg0, World(p[1], p[2]), Today0, Args0) : p \in FeedPairs(RowsPos, MaxRows)}

\* The cutoff of Args0 on Today0 is 2022-01-01: records on it and a day before.
RowsBoundary ==
    {Row(<<"10-K">>, AccA, D20220101, Doc1), Row(<<"10-K">>, AccB, D20211231, Doc1)}

ScenariosBoundary ==
    {Scenario(Reg0, World(p[1], p[2]), Today0, Args0) : p \in FeedPairs(RowsBoundary, 2)}

\* Registries, tickers and form types.
ScenariosArgs ==
    {Scenario(reg, World(<<Row(<<"10-K">>, AccA, D20230615, Doc1)>>,
                         <<Row(<<"10-K">>, AccB, D20230102, Doc1)>>), Today0,
              [ticker |-> t, form_type |-> f, years_back |-> 1]) :
        reg \in Registries, t \in Tickers, f \in FormArgs}

\* Chunk documents: parallel arrays of unequal length, nested lists, neither.
TwoRows == <<Row(<<"10-K">>, AccA, D20230615, Doc1), Row(<<"10-K">>, AccB, D20230102, Doc1)>>

Shorten(arr) == SubSeq(arr, 1, Len(arr) - 1)

NestedEntry(a, doc) ==
    [form |-> <<"10-K">>, accessionNumber |-> a, filingDate |-> D20230615,
     reportDate |-> D20230615, document |-> doc, source |-> Missing]

ChunkDocs ==
    LET full == ArraysOf(TwoRows)
    IN  {full,
         [full EXCEPT !.form = Shorten(@)],
         [full EXCEPT !.filingDate = Shorten(@)],
         [full EXCEPT !.reportDate = Shorten(@)],
         [full EXCEPT !.primaryDocument = Shorten(@)],
         [full EXCEPT !.form = <<>>, !.filingDate = <<>>, !.reportDate = <<>>,
                      !.primaryDocument = <<>>],
         [ErrorBody EXCEPT !.kind = "nested", !.filings = <<NestedEntry(AccC, Doc1)>>],
         [ErrorBody EXCEPT !.kind = "nested", !.filings = <<NestedEntry(AccC, Missing)>>],
         ErrorBody}

\* A reference with no name (its document is never fetched), or a named one.
ChunkChoices == {[named |-> FALSE, data |-> ErrorBody]} \cup {[named |-> TRUE, data |-> d] : d \in ChunkDocs}

FilesOf(choices) ==
    [i \in 1..Len(choices) |->
        ChunkRef(IF choices[i].named THEN ChunkName(i) ELSE None, choices[i].data)]

ScenariosChunks ==
    {Scenario(Reg0, [recent |-> RecentOf(<<TwoRows[1]>>), files |-> FilesOf(ch)],
              Today0, Args0) : ch \in SeqsUpTo(ChunkChoices, MaxChunks)}

\* The recent section with one array shorter or longer than the others.
RecentDocs ==
    LET full == RecentOf(TwoRows)
    IN  {full,
         [full EXCEPT !.form = Shorten(@)],
         [full EXCEPT !.accessionNumber = Shorten(@)],
         [full EXCEPT !.reportDate = Shorten(@)],
         [full EXCEPT !.primaryDocument = Shorten(@)]}

ScenariosRecent ==
    {Scenario(Reg0, [recent |-> r, files |-> <<>>], Today0, Args0) : r \in RecentDocs}

Scenarios ==
    ScenariosAgg \cup ScenariosFilter \cup ScenariosPos \cup ScenariosBoundary
        \cup ScenariosArgs
        \cup ScenariosChunks \cup ScenariosRecent

----------------------------------------------------------------------------
(* The state machine *)

NoRet == [ticker |-> <<>>, status |-> "none", value |-> None]

\* The locals of a call that has not started.
Idle ==
    /\ pc = "idle"
    /\ cik = None
    /\ cutoff = 0
    /\ recent_entries = <<>>
    /\ summary = <<>>
    /\ chunk_i = 1
    /\ hist_entries = <<>>
    /\ kept = {}
    /\ unique = <<>>
    /\ result = <<>>
    /\ error = "none"
    /\ requests = 0
    /\ fetch_failed = FALSE
    /\ ret = NoRet

\* After SECFilingAgent(): the registry has been downloaded once.
Init ==
    /\ \E sc \in Scenarios :
          /\ registry = sc.registry
          /\ upstream = sc.upstream
          /\ today = sc.today
          /\ args = sc.args
    /\ cik_map = load_cik_map(registry)
    /\ loads = 1
    /\ Idle

world == <<registry, cik_map, loads, upstream, today, args>>

\* A call that does not validate the form type.
IsValidFormUnchecked(f) == TRUE

\* if form_type not in self.VALID_FORM_TYPES
IsValidForm(f) == f \in VALID_FORM_TYPES

\* get_filings, lines 166-171: validation, cutoff, ticker lookup.
Call ==
    /\ pc = "idle"
    /\ IF ~IsValidForm(args.form_type)
       THEN /\ error' = "ValueError:form"
            /\ pc' = "done"
            /\ UNCHANGED <<cik, cutoff>>
       ELSE LET r == get_cik(cik_map, args.ticker)
            IN  /\ cutoff' = Cutoff(today, args.years_back)
                /\ IF r.status # "ok"
                   THEN error' = "ValueError:ticker" /\ pc' = "done" /\ cik' = cik
                   ELSE error' = error /\ pc' = "recent" /\ cik' = r.value
    /\ UNCHANGED <<world, recent_entries, summary, chunk_i, hist_entries, kept, unique,
                   result, requests, fetch_failed, ret>>

\* _load_recent_entries (line 174 of get_filings).
LoadRecent ==
    /\ pc = "recent"
    /\ \E ok \in BOOLEAN :
          LET body == IF ok THEN upstream.recent ELSE RecentOf(<<>>)
              d    == DecodeRecent(body)
          IN  /\ requests' = requests + 1
              /\ fetch_failed' = (fetch_failed \/ ~ok)
              /\ IF raise_for_status(ok)
                 THEN error' = "HTTPError" /\ pc' = "done" /\ recent_entries' = recent_entries
                 ELSE IF d.error # "none"
                 THEN error' = d.error /\ pc' = "done" /\ recent_entries' = recent_entries
                 ELSE error' = error /\ pc' = "summary" /\ recent_entries' = d.entries
    /\ UNCHANGED <<world, cik, cutoff, summary, chunk_i, hist_entries, kept, unique,
                   result, ret>>

\* _load_historical_entries, lines 90-95: the list of chunk references.
LoadSummary ==
    /\ pc = "summary"
    /\ \E ok \in BOOLEAN :
          /\ requests' = requests + 1
          /\ fetch_failed' = (fetch_failed \/ ~ok)
          /\ IF raise_for_status(ok)
             THEN error' = "HTTPError" /\ pc' = "done" /\ summary' = summary
             ELSE error' = error /\ pc' = "chunks"
                    /\ summary' = (IF ok THEN upstream.files ELSE <<>>)
    /\ UNCHANGED <<world, cik, cutoff, recent_entries, chunk_i, hist_entries, kept,
                   unique, result, ret>>

\* _load_historical_entries, lines 96-126: one iteration of the loop over chunks.
LoadChunk ==
    /\ pc = "chunks"
    /\ chunk_i <= Len(summary)
    /\ LET chunk == summary[chunk_i]
       IN  IF chunk.name = None \/ chunk.name = <<>>
           THEN /\ chunk_i' = chunk_i + 1
                /\ UNCHANGED <<pc, error, hist_entries, requests, fetch_failed>>
           ELSE \E ok \in BOOLEAN :
                   LET data == IF ok THEN chunk.data ELSE ErrorBody
                   IN  /\ requests' = requests + 1
                       /\ fetch_failed' = (fetch_failed \/ ~ok)
                       /\ IF raise_for_status(ok)
                          THEN /\ error' = "HTTPError"
                               /\ pc' = "done"
                               /\ UNCHANGED <<chunk_i, hist_entries>>
                          ELSE /\ hist_entries' = hist_entries \o DecodeChunk(data, chunk.name)
                               /\ chunk_i' = chunk_i + 1
                               /\ UNCHANGED <<pc, error>>
    /\ UNCHANGED <<world, cik, cutoff, recent_entries, summary, kept, unique, result, ret>>

\* get_filings, lines 177-205: filter, link, deduplicate, sort, return.
Aggregate ==
    /\ pc = "chunks"
    /\ chunk_i > Len(summary)
    /\ LET c == Combine(recent_entries \o hist_entries, args.form_type, cutoff, cik)
           u == Dedup(c.combined)
       IN  /\ kept' = c.kept
           /\ error' = c.error
           /\ IF c.error # "none"
              THEN UNCHANGED <<unique, result>>
              ELSE unique' = u /\ result' = SortDesc(u)
    /\ pc' = "done"
    /\ UNCHANGED <<world, cik, cutoff, recent_entries, summary, chunk_i, hist_entries,
                   requests, fetch_failed, ret>>

\* A direct call of get_cik.
GetCik ==
    /\ pc = "idle"
    /\ \E t \in Tickers :
          LET r == get_cik(cik_map, t)
          IN  ret' = [ticker |-> t, status |-> r.status, value |-> r.value]
    /\ pc' = "cik_done"
    /\ UNCHANGED <<world, cik, cutoff, recent_entries, summary, chunk_i, hist_entries,
                   kept, unique, result, error, requests, fetch_failed>>

\* The call is over (returned or raised); the agent is ready for the next one.
Return ==
    /\ pc \in {"done", "cik_done"}
    /\ pc' = "idle"
    /\ cik' = None
    /\ cutoff' = 0
    /\ recent_entries' = <<>>
    /\ summary' = <<>>
    /\ chunk_i' = 1
    /\ hist_entries' = <<>>
    /\ kept' = {}
    /\ unique' = <<>>
    /\ result' = <<>>
    /\ error' = "none"
    /\ requests' = 0
    /\ fetch_failed' = FALSE
    /\ ret' = NoRet
    /\ UNCHANGED world

Next == Call \/ LoadRecent \/ LoadSummary \/ LoadChunk \/ Aggregate \/ GetCik \/ Return

Spec == Init /\ [][Next]_vars

----------------------------------------------------------------------------
(* Properties *)

\* get_filings has returned a list.
Returned == pc = "done" /\ error = "none"

\* Both readers have returned and the filter loop has run.
Aggregated ==
    pc = "done" /\ error \notin {"ValueError:form", "ValueError:ticker", "HTTPError", "IndexError"}

\* recent_entries + hist_entries, the sequence the filter loop goes over.
Entries == recent_entries \o hist_entries

RecentIdx == 1..Len(recent_entries)

HistIdx == (Len(recent_entries) + 1)..Len(Entries)

HasDate(e) == e.filingDate \notin {None, Missing, <<>>}

\* A filing date that is there and is no date.
Malformed(e) == HasDate(e) /\ strptime_raises(BeforeT(e.filingDate))

\* The filter as specified: the form matches exactly, the date is present and
\* is a date, and it is not before today - 365 * years_back days.
Qualifies(e) ==
    /\ e.form = args.form_type
    /\ HasDate(e)
    /\ ~strptime_raises(BeforeT(e.filingDate))
    /\ strptime_date(BeforeT(e.filingDate))
           >= ToOrdinal(today[1], today[2], today[3]) - 365 * args.years_back

ResultsFor(a) == {k \in 1..Len(result) : result[k].accessionNumber = a}

PlaceInUnique(r) == CHOOSE j \in 1..Len(unique) : unique[j].accessionNumber = r.accessionNumber

\* C1: when an accession number occurs in the recent feed and in a historical
\* chunk and both records pass the filter, the returned list has exactly one
\* record for it, with source "recent" and the recent record's filing date.
C1_RecentWins ==
    Returned =>
        \A i \in RecentIdx \cap kept : \A j \in HistIdx \cap kept :
            Entries[i].accessionNumber = Entries[j].accessionNumber =>
                /\ Cardinality(ResultsFor(Entries[i].accessionNumber)) = 1
                /\ \A k \in ResultsFor(Entries[i].accessionNumber) :
                      /\ result[k].source = <<"recent">>
                      /\ \E r \in RecentIdx \cap kept :
                            /\ Entries[r].accessionNumber = result[k].accessionNumber
                            /\ Entries[r].filingDate = result[k].filingDate

\* C2: the returned list never holds two records with the same accession
\* number, and it holds a record for an accession number exactly when some
\* input record with that accession number passed the filter.
C2_OnePerAccession ==
    Returned =>
        /\ \A k, l \in 1..Len(result) :
              result[k].accessionNumber = result[l].accessionNumber => k = l
        /\ {result[k].accessionNumber : k \in 1..Len(result)}
              = {Entries[i].accessionNumber : i \in {n \in 1..Len(Entries) : Qualifies(Entries[n])}}

\* An accession number is repeated inside the recent feed, and a record of
\* another accession number does not pass the filter and is not returned.
C2_Witness ==
    /\ Returned
    /\ \E i, j \in RecentIdx \cap kept :
          /\ i < j
          /\ Entries[i].accessionNumber = Entries[j].accessionNumber
    /\ \E n \in 1..Len(Entries) :
          /\ n \notin kept
          /\ ResultsFor(Entries[n].accessionNumber) = {}

\* C3: the returned list is the deduplicated records ordered by filingDate
\* string, descending, and records with equal filingDate keep the order they
\* had in the deduplicated sequence.
C3_SortedStable ==
    Returned =>
        /\ Len(result) = Len(unique)
        /\ {result[k] : k \in 1..Len(result)} = {unique[k] : k \in 1..Len(unique)}
        /\ \A k \in 1..(Len(result) - 1) :
              ~StrLess(result[k].filingDate, result[k + 1].filingDate)
        /\ \A k, l \in 1..Len(result) :
              (k < l /\ result[k].filingDate = result[l].filingDate)
                  => PlaceInUnique(result[k]) < PlaceInUnique(result[l])

\* Three records are returned, two of them with the same date, and sorting
\* moved a record.
C3_Witness ==
    /\ Returned
    /\ Len(result) = 3
    /\ result[1].filingDate = result[2].filingDate
    /\ result[2].filingDate # result[3].filingDate
    /\ result # unique

\* C4: a record with a malformed filing date is dropped and does not make
\* get_filings fail: once both readers have returned, the call returns.
C4_MalformedDropped ==
    (/\ Aggregated
     /\ \E i \in 1..Len(Entries) : Malformed(Entries[i])
     /\ \A i \in 1..Len(Entries) :
           /\ Entries[i].accessionNumber \notin {None, Missing}
           /\ Entries[i].document # Missing)
        => /\ error = "none"
           /\ \A i \in 1..Len(Entries) : Malformed(Entries[i]) => i \notin kept

\* C5: a record contributes to the returned list exactly when its form is the
\* requested one, its filing date is present and its date is on or after
\* today - 365 * years_back days.
C5_FilterExact ==
    /\ \A i \in kept : Qualifies(Entries[i])
    /\ Returned =>
          /\ kept = {i \in 1..Len(Entries) : Qualifies(Entries[i])}
          /\ \A i \in kept : ResultsFor(Entries[i].accessionNumber) # {}

\* A record dated on the cutoff is kept and one dated a day earlier is dropped.
C5_Witness ==
    /\ Returned
    /\ \E i \in kept :
          strptime_date(BeforeT(Entries[i].filingDate)) = cutoff
    /\ \E i \in 1..Len(Entries) :
          /\ i \notin kept
          /\ Entries[i].form = args.form_type
          /\ HasDate(Entries[i])
          /\ strptime_date(BeforeT(Entries[i].filingDate)) = cutoff - 1
          /\ ResultsFor(Entries[i].accessionNumber) = {}

\* C6: with a form type outside VALID_FORM_TYPES, get_filings fails with the
\* unsupported-form error before the ticker is looked up and before any
\* request is made, for known and unknown tickers.
C6_InvalidFormNoNetwork ==
    (pc \notin {"idle", "cik_done"} /\ args.form_type \notin VALID_FORM_TYPES)
        => /\ pc = "done"
           /\ error = "ValueError:form"
           /\ requests = 0
           /\ cik = None
           /\ result = <<>>

\* An unsupported form type with a ticker of the registry.
C6_Witness ==
    /\ pc = "done"
    /\ args.form_type \notin VALID_FORM_TYPES
    /\ upper(args.ticker) \in DOMAIN cik_map

\* C7: when a fetch of the call fails (the submissions document of either
\* reader, or any chunk), the call fails with that error and returns no list.
C7_FetchFailureNoPartial ==
    fetch_failed => /\ pc = "done"
                    /\ error = "HTTPError"
                    /\ result = <<>>
                    /\ unique = <<>>

\* The second chunk fails after the recent feed and the first chunk were decoded.
C7_Witness ==
    /\ fetch_failed
    /\ recent_entries # <<>>
    /\ hist_entries # <<>>
    /\ chunk_i = 2
    /\ requests = 4

\* C8: every returned record has the link archive-base + decimal entity
\* identifier + '/' + its accession number without dashes + '/' + its document.
C8_LinkTemplate ==
    Returned =>
        \A k \in 1..Len(result) :
            result[k].link =
                <<ARCHIVE_BASE>> \o IntToStr(StrToInt(cik)) \o <<"/">>
                    \o SelectSeq(result[k].accessionNumber, LAMBDA c : c # "-")
                    \o <<"/">> \o result[k].document

SameTicker(a, b) ==
    /\ Len(a) = Len(b)
    /\ \A i \in 1..Len(a) : UpperChar(a[i]) = UpperChar(b[i])

\* C9: get_cik returns, for a ticker of the registry in any case, the
\* identifier as 10 digits, zero-padded; it fails for any other ticker; and it
\* leaves the registry map as it was loaded, with no reload.
C9_GetCikTotal ==
    /\ loads = 1
    /\ cik_map = load_cik_map(registry)
    /\ ret.status # "none" =>
          LET hits == {i \in 1..Len(registry) : SameTicker(registry[i].ticker, ret.ticker)}
          IN  IF hits = {}
              THEN ret.status = "ValueError"
              ELSE /\ ret.status = "ok"
                   /\ Len(ret.value) = 10
                   /\ IsDigits(ret.value)
                   /\ \E i \in hits : StrToInt(ret.value) = registry[i].cik_str

\* get_cik returned the identifier of a ticker typed in another case than the
\* registry has it.
C9_Witness ==
    /\ ret.status = "ok"
    /\ \A i \in 1..Len(registry) : registry[i].ticker # ret.ticker
    /\ ret.value[1] = "0"

\* The chunks read so far.
ChunksRead == IF pc = "chunks" THEN 1..(chunk_i - 1) ELSE {}

Named(j) == summary[j].name \notin {None, <<>>}

\* Number of records chunk j adds to entries.
RecordsOf(j) ==
    IF ~Named(j) THEN 0
    ELSE IF summary[j].data.kind = "arrays" THEN Len(summary[j].data.accessionNumber)
    ELSE IF summary[j].data.kind = "nested" THEN Len(summary[j].data.filings)
    ELSE 0

RECURSIVE RecordsBefore(_)
RecordsBefore(j) == IF j = 1 THEN 0 ELSE RecordsBefore(j - 1) + RecordsOf(j - 1)

FieldAt(arr, i) == IF i \in DOMAIN arr THEN arr[i] ELSE None

\* C10: a parallel-array chunk yields one record per element of its
\* accessionNumber array, in order, tagged with the chunk name; a field whose
\* array is too short is None and the other records are unaffected.
C10_ParallelArrays ==
    /\ pc = "chunks" => Len(hist_entries) = RecordsBefore(chunk_i)
    /\ \A j \in ChunksRead :
          (Named(j) /\ summary[j].data.kind = "arrays") =>
              LET data == summary[j].data
              IN  \A i \in 1..Len(data.accessionNumber) :
                      LET e == hist_entries[RecordsBefore(j) + i]
                      IN  /\ e.accessionNumber = data.accessionNumber[i]
                          /\ e.source = summary[j].name
                          /\ e.form = FieldAt(data.form, i)
                          /\ e.filingDate = FieldAt(data.filingDate, i)
                          /\ e.reportDate = FieldAt(data.reportDate, i)
                          /\ e.document = FieldAt(data.primaryDocument, i)

\* Two chunks were read, the second one with a filingDate array shorter than
\* its accessionNumber array.
C10_Witness ==
    /\ pc = "chunks"
    /\ chunk_i = 3
    /\ Named(2)
    /\ summary[2].data.kind = "arrays"
    /\ Len(summary[2].data.filingDate) < Len(summary[2].data.accessionNumber)
    /\ hist_entries[Len(hist_entries)].filingDate = None
    /\ hist_entries[Len(hist_entries)].form # None
    /\ RecordsBefore(2) > 0

====
